---- MODULE Spec2Model ----
(***************************************************************************)
(* Authentication / teacher-verification workflow of the gittutor backend. *)
(*                                                                         *)
(* The model follows the controllers the routers import:                   *)
(*   backend/src/controllers/authController.js    (register, login,        *)
(*       forgotPassword, resetPassword, verifyEmail)                       *)
(*   backend/src/controllers/teacherController.js (addTeacherEmail,        *)
(*       requestTeacherVerification, verifyTeacher)                        *)
(*   backend/src/controllers/userController.js    (deleteUser)             *)
(*   backend/src/models/User.js                   (the Identity schema)    *)
(*   the TeacherEmail schema with generateVerificationCode                 *)
(*                                                                         *)
(* Every handler is one atomic action, except resetPassword, whose lookup  *)
(* (User.findOne) and write (user.save) are two awaited steps, so that two *)
(* requests can interleave at the persistence layer.                       *)
(*                                                                         *)
(* The credential store is persistent and outlives the process: at Init it *)
(* holds two documents of the schema written before this run, an Identity  *)
(* with a pending password-reset token and a consumed grant.               *)
(*                                                                         *)
(* Time is counted in ticks of ten minutes.                                *)
(***************************************************************************)
EXTENDS Integers, FiniteSets, Sequences, Bags, TLC

(* ------------------------------ bounds --------------------------------- *)

\* latest clock value explored
MaxTime == 2

\* raw random tokens (crypto.randomBytes) the run may draw
MaxTokens == 3

\* Identity ids (_id) the store may hand out
MaxIds == 3

\* concurrent resetPassword requests in flight
MaxResetReqs == 2

\* concurrent register requests in flight
MaxRegReqs == 2

\* whole days the clock may jump ahead
MaxDays == 1

\* answers (_id) the doubt may receive
MaxAnswers == 2

(* --------------------------- program constants ------------------------- *)

\* 10 * 60 * 1000 ms, in ticks of ten minutes
TokenTTL == 1

\* 24 * 60 * 60 * 1000 ms, in ticks of ten minutes
CodeTTL == 144

\* password: minlength 6; check('password').isLength({ min: 6 })
MinPasswordLen == 6

\* /register/admin: check('password').isLength({ min: 8 })
AdminMinPasswordLen == 8

(* ------------------------------ values --------------------------------- *)

Email(l, d) == [local |-> l, domain |-> d]

TeacherAddr == Email("t", "git.edu")
UsedAddr    == Email("u", "git.edu")
StudentAddr == Email("s", "students.git.edu")
OtherAddr   == Email("a", "mail.com")

Emails == {TeacherAddr, UsedAddr, StudentAddr, OtherAddr}

Routes == {"student", "teacher", "admin"}

Passwords == {"abc", "secret", "password1"}

\* the passwords register and resetPassword are tried with, and the addresses
\* the admin route is tried with
RegPasswords == {"abc", "password1"}
NewPasswords == RegPasswords
AdminAddrs   == {OtherAddr}
RegAddrs(route) == IF route = "admin" THEN AdminAddrs ELSE Emails

\* String.length of the candidate passwords ("" is the missing field)
PwLen(p) == CASE p = "abc"       -> 3
              [] p = "secret"    -> 6
              [] p = "password1" -> 9
              [] OTHER           -> 0

Tokens == 1..MaxTokens
Ids    == 1..MaxIds
Codes  == {"100001"}

\* an optional field that is not set (undefined in the document)
Unset == <<>>

\* crypto.createHash('sha256').update(raw).digest('hex')
Sha256(raw) == <<"sha256", raw>>

\* a Date field holding t
At(t) == <<t>>

\* bcrypt.hash(plain, 12)
BcryptHash(plain) == <<"bcrypt", plain>>

\* bcrypt.compare(candidate, hash)
BcryptCompare(candidate, hash) == hash = BcryptHash(candidate)

NoUser  == [absent |-> TRUE]
NoGrant == [absent |-> TRUE]

(* ------------------------------ state ---------------------------------- *)

VARIABLES
    users,      \* User collection: email -> Identity document or NoUser
    grants,     \* TeacherEmail collection: email -> grant document or NoGrant
    now,        \* Date.now()
    nextTok,    \* next raw random token
    nextId,     \* next _id
    issued,     \* subject ids a bearer token was returned for
    consumed,   \* raw tokens verifyEmail has succeeded on
    resetOk,    \* raw token -> number of resetPassword requests answered 200
    rr,         \* bag of resetPassword requests between lookup and save
    req,        \* the request passing through protect, authorize and its handler
    reg,        \* bag of register requests between their checks and User.create
    inserted,   \* email -> Identity documents inserted by those register requests
    answers     \* answers of the Doubt document: _id -> answer, NoAnswer or Removed

vars == <<users, grants, now, nextTok, nextId, issued, consumed, resetOk, rr,
          req, reg, inserted, answers>>

\* the requests in flight other than resetPassword's, and the Doubt document,
\* which only the handlers of the doubt routes write
flights == <<req, reg, inserted, answers>>

\* a request between its lookup and its save holds what the handler holds:
\* the raw token, the new password and the _id of the document found
ResetReq(raw, pw, uid) == [tok |-> raw, pw |-> pw, uid |-> uid]

\* a response: status 0 means the handler sent none; bearer is the subject
\* of the JWT in the body, vtok the raw verification token in the body
Resp(status, code, bearer, vtok) ==
    [status |-> status, code |-> code, bearer |-> bearer, vtok |-> vtok]

Exists(e) == users[e] # NoUser

\* no request is passing through the middleware
NoRequest == [stage |-> "idle"]

\* variant of Live: an expiry equal to the clock still counts ($gte)
LiveInclusive(tokField, expField, hash) ==
    tokField = hash /\ expField # Unset /\ expField[1] >= now

\* { <token field>: hash, <expire field>: { $gt: Date.now() } }
Live(tokField, expField, hash) ==
    tokField = hash /\ expField # Unset /\ expField[1] > now

(* --------------------------- the User model ---------------------------- *)

\* userSchema.methods.getEmailVerificationToken: a fresh raw token, its
\* SHA-256 stored, expiry ten minutes ahead
GetEmailVerificationToken(u, raw) ==
    [u EXCEPT !.emailVerificationToken = Sha256(raw),
              !.emailVerificationExpire = At(now + TokenTTL)]

\* userSchema.methods.comparePassword
ComparePassword(u, candidate) == BcryptCompare(candidate, u.password)

\* variant of PreSave: the hook hashes the password field on every save
PreSaveAlways(doc, passwordModified) ==
    [doc EXCEPT !.password = <<"bcrypt">> \o @]

\* userSchema.pre('save'): if (!this.isModified('password')) return next();
\* this.password = await bcrypt.hash(this.password, 12). The field holds the
\* string assigned to it, <<p>> for the plain text p, and the hash of the
\* plain text is BcryptHash(p); hashing a hash gives a string no password
\* compares to
PreSave(doc, passwordModified) ==
    IF ~passwordModified THEN doc
    ELSE [doc EXCEPT !.password = <<"bcrypt">> \o @]

\* variant of TeacherEmailId: the Identity of a teacher keeps the reference
\* to its grant
TeacherEmailIdStored(u) == IF u.role = "teacher" THEN At(u.id) ELSE Unset

\* the schema has no path teacherEmailId: in strict mode the value handed to
\* User.create is dropped, and reading it from a document gives undefined
TeacherEmailId(u) == Unset

\* the value crypto.randomBytes(32).toString('hex') register hands to
\* User.create, stored unhashed until getEmailVerificationToken replaces it
PlainRandom == <<"plain">>

RoleOf(route) == IF route = "admin" THEN "admin"
                 ELSE IF route = "teacher" THEN "teacher" ELSE "student"

\* variant of CreateUser: only the admin route creates a verified Identity
CreateUserUnverified(route, p, id) ==
    PreSave(
    [id |-> id,
     role |-> RoleOf(route),
     password |-> <<p>>,
     isEmailVerified |-> (route = "admin"),
     emailVerificationToken |-> IF route = "teacher" THEN PlainRandom ELSE Unset,
     emailVerificationExpire |-> IF route = "teacher" THEN At(now + TokenTTL) ELSE Unset,
     resetPasswordToken |-> Unset,
     resetPasswordExpire |-> Unset], TRUE)

\* User.create({...}) of register: the document is built with the plain
\* password and saved
CreateUser(route, p, id) ==
    PreSave(
    [id |-> id,
     role |-> RoleOf(route),
     password |-> <<p>>,
     isEmailVerified |-> (route = "admin" \/ route # "teacher"),
     emailVerificationToken |-> IF route = "teacher" THEN PlainRandom ELSE Unset,
     emailVerificationExpire |-> IF route = "teacher" THEN At(now + TokenTTL) ELSE Unset,
     resetPasswordToken |-> Unset,
     resetPasswordExpire |-> Unset], TRUE)

(* ------------------------------ register ------------------------------- *)

\* the express-validator checks of the three register routes on a body whose
\* name, email and (on the admin route) adminKey are present
ValidationOk(route, p) ==
    PwLen(p) >= (IF route = "admin" THEN AdminMinPasswordLen ELSE MinPasswordLen)

\* student registration: emailDomain !== 'students.git.edu'
DomainOk(route, e) ==
    route = "admin" \/ route = "teacher" \/ e.domain = "students.git.edu"

\* TeacherEmail.findOne({ email, isUsed: false })
GrantForRegistration(e) ==
    IF grants[e] # NoGrant /\ ~grants[e].isUsed THEN grants[e] ELSE NoGrant

\* the checks register makes before User.create: "" when they all pass
RegisterReject(route, e, p) ==
    IF ~ValidationOk(route, p) THEN "validation"
    ELSE IF ~DomainOk(route, e) THEN "domain"
    ELSE IF Exists(e) THEN "exists"
    ELSE IF route = "teacher" /\ GrantForRegistration(e) = NoGrant THEN "not_authorized"
    ELSE ""

\* variant of RegisterGrants: the grant is marked used before User.create
\* is known to have succeeded
RegisterGrantsEager(route, e, created) ==
    IF route = "teacher" /\ grants[e] # NoGrant
    THEN [grants EXCEPT ![e].isUsed = TRUE]
    ELSE grants

\* the TeacherEmail collection after register: the handler reads it and
\* never writes it, whether User.create succeeded or threw
RegisterGrants(route, e, created) == grants

\* variant of TeacherRegistered: a failed sendEmail is reported as an error
TeacherRegisteredMailError(mailOk, id, raw) ==
    IF mailOk THEN Resp(201, "registered", {id}, {raw})
    ELSE Resp(500, "Email could not be sent", {}, {})

\* what register answers once the teacher's Identity is stored: 201 with a
\* bearer token and the raw verification token, whether sendEmail succeeded
\* or threw
TeacherRegistered(mailOk, id, raw) ==
    Resp(201, IF mailOk THEN "registered" ELSE "registered_mail_failed", {id}, {raw})

\* what register answers and writes. createOk: User.create succeeds (else it
\* throws and the catch answers 500); mailOk: sendEmail succeeds; id, raw: the
\* fresh _id and the fresh token of getEmailVerificationToken; mail: whether
\* sendEmail was called
RegisterOutcome(route, e, p, createOk, mailOk, id, raw) ==
    IF RegisterReject(route, e, p) # "" THEN
        [users |-> users, grants |-> grants, mail |-> FALSE,
         resp |-> Resp(400, RegisterReject(route, e, p), {}, {})]
    ELSE IF ~createOk THEN
        [users |-> users, grants |-> RegisterGrants(route, e, FALSE), mail |-> FALSE,
         resp |-> Resp(500, "Server error during registration", {}, {})]
    ELSE IF route = "teacher" THEN
        [users |-> [users EXCEPT
                      ![e] = PreSave(GetEmailVerificationToken(CreateUser(route, p, id),
                                                               raw), FALSE)],
         grants |-> RegisterGrants(route, e, TRUE), mail |-> TRUE,
         resp |-> TeacherRegistered(mailOk, id, raw)]
    ELSE
        [users |-> [users EXCEPT ![e] = CreateUser(route, p, id)],
         grants |-> RegisterGrants(route, e, TRUE), mail |-> FALSE,
         resp |-> Resp(201, "registered", {}, {})]

Register(route, e, p, createOk, mailOk) ==
    LET creates == RegisterReject(route, e, p) = "" /\ createOk
        o == RegisterOutcome(route, e, p, createOk, mailOk, nextId, nextTok)
    IN  /\ RegisterReject(route, e, p) # "" => (createOk /\ mailOk)
        /\ (~createOk \/ route # "teacher") => mailOk
        /\ creates => nextId <= MaxIds
        /\ (creates /\ route = "teacher") => nextTok <= MaxTokens
        /\ users' = o.users
        /\ grants' = o.grants
        /\ issued' = issued \cup o.resp.bearer
        /\ nextId' = IF creates THEN nextId + 1 ELSE nextId
        /\ nextTok' = IF creates /\ route = "teacher" THEN nextTok + 1 ELSE nextTok
        /\ UNCHANGED <<now, consumed, resetOk, rr>>
        /\ UNCHANGED flights

\* what a request to /register/admin can carry as adminKey: nothing, the
\* provisioning key, or some other string
ValidAdminKey == "valid"
AdminKeys == {"", "wrong", ValidAdminKey}

\* register on the admin route for a body with the given adminKey:
\* check('adminKey').not().isEmpty() is the only use made of the key; the
\* handler reads it from the body and never compares it with anything
RegisterAdminOutcome(e, p, key, createOk, id) ==
    IF key = "" THEN
        [users |-> users, grants |-> grants, mail |-> FALSE,
         resp |-> Resp(400, "validation", {}, {})]
    ELSE RegisterOutcome("admin", e, p, createOk, TRUE, id, nextTok)

RegisterAdmin(e, p, key, createOk) ==
    IF key = "" THEN createOk /\ UNCHANGED vars
    ELSE Register("admin", e, p, createOk, TRUE)

(* ------------------- register as two awaited steps --------------------- *)

\* how the request spells the address: already lower case, or with capitals
Spellings == {"lower", "mixed"}

\* User.findOne({ email }) with the address as the request spells it; stored
\* addresses are lower case (schema option lowercase), and folds says whether
\* the query casts the filter with that option too
FindOneByEmail(e, spelled, folds) ==
    Exists(e) /\ (spelled = "lower" \/ folds)

\* the checks of register on a request whose address reads e in lower case
RegisterCheckReject(route, e, p, spelled, folds) ==
    IF ~ValidationOk(route, p) THEN "validation"
    ELSE IF ~DomainOk(route, e) THEN "domain"
    ELSE IF FindOneByEmail(e, spelled, folds) THEN "exists"
    ELSE IF route = "teacher" /\ GrantForRegistration(e) = NoGrant THEN "not_authorized"
    ELSE ""

\* a register request that has passed its checks and awaits User.create
RegReq(route, e, p) == [route |-> route, e |-> e, p |-> p]

\* first awaited steps: the lookups; a request that fails one is answered 400
RegisterCheck(route, e, p, spelled, folds) ==
    /\ IF RegisterCheckReject(route, e, p, spelled, folds) # ""
       THEN UNCHANGED reg
       ELSE /\ BagCardinality(reg) < MaxRegReqs
            /\ reg' = reg (+) SetToBag({RegReq(route, e, p)})
    /\ UNCHANGED <<users, grants, now, nextTok, nextId, issued, consumed, resetOk, rr,
                   req, inserted, answers>>

\* variant of UniqueIndexAllows: the collection has no unique index on email
UniqueIndexAllowsAll(e) ==
    TRUE

\* email: { unique: true }: the insert of a second document with the address
\* fails with a duplicate-key error
UniqueIndexAllows(e) ==
    ~Exists(e)

\* what User.create and the rest of register answer and write for the
\* request q: a duplicate-key error is caught and answered 500
RegisterCreateOutcome(q, id, raw) ==
    IF ~UniqueIndexAllows(q.e) THEN
        [users |-> users, resp |-> Resp(500, "Server error during registration", {}, {})]
    ELSE IF q.route = "teacher" THEN
        [users |-> [users EXCEPT
                      ![q.e] = PreSave(GetEmailVerificationToken(
                                           CreateUser(q.route, q.p, id), raw), FALSE)],
         resp |-> TeacherRegistered(TRUE, id, raw)]
    ELSE
        [users |-> [users EXCEPT ![q.e] = CreateUser(q.route, q.p, id)],
         resp |-> Resp(201, "registered", {}, {})]

\* second awaited step: User.create and the response
RegisterCreate(q) ==
    LET o == RegisterCreateOutcome(q, nextId, nextTok)
        creates == o.resp.status = 201
    IN  /\ q \in BagToSet(reg)
        /\ creates => nextId <= MaxIds
        /\ (creates /\ q.route = "teacher") => nextTok <= MaxTokens
        /\ users' = o.users
        /\ issued' = issued \cup o.resp.bearer
        /\ inserted' = IF creates THEN [inserted EXCEPT ![q.e] = @ + 1] ELSE inserted
        /\ nextId' = IF creates THEN nextId + 1 ELSE nextId
        /\ nextTok' = IF creates /\ q.route = "teacher" THEN nextTok + 1 ELSE nextTok
        /\ reg' = reg (-) SetToBag({q})
        /\ UNCHANGED <<grants, now, consumed, resetOk, rr, req, answers>>

(* -------------------------------- login -------------------------------- *)

\* variant of LoginOutcome: a wrong password gets a message of its own
LoginOutcomeDistinct(e, p, raw) ==
    IF p = "" THEN
        [users |-> users, resp |-> Resp(400, "Please provide an email and password", {}, {})]
    ELSE IF ~Exists(e) THEN
        [users |-> users, resp |-> Resp(401, "Invalid credentials", {}, {})]
    ELSE IF ~ComparePassword(users[e], p) THEN
        [users |-> users, resp |-> Resp(401, "Incorrect password", {}, {})]
    ELSE IF users[e].role = "teacher" /\ ~users[e].isEmailVerified THEN
        [users |-> [users EXCEPT
                      ![e] = PreSave(GetEmailVerificationToken(users[e], raw), FALSE)],
         resp  |-> Resp(401, "Please verify your email before logging in", {}, {raw})]
    ELSE
        [users |-> users, resp |-> Resp(200, "ok", {users[e].id}, {})]

\* what login answers and writes for (e, p); raw is the fresh token the
\* unverified-teacher branch draws
LoginOutcome(e, p, raw) ==
    IF p = "" THEN
        [users |-> users, resp |-> Resp(400, "Please provide an email and password", {}, {})]
    ELSE IF ~Exists(e) THEN
        [users |-> users, resp |-> Resp(401, "Invalid credentials", {}, {})]
    ELSE IF ~ComparePassword(users[e], p) THEN
        [users |-> users, resp |-> Resp(401, "Invalid credentials", {}, {})]
    ELSE IF users[e].role = "teacher" /\ ~users[e].isEmailVerified THEN
        [users |-> [users EXCEPT
                      ![e] = PreSave(GetEmailVerificationToken(users[e], raw), FALSE)],
         resp  |-> Resp(401, "Please verify your email before logging in", {}, {raw})]
    ELSE
        [users |-> users, resp |-> Resp(200, "ok", {users[e].id}, {})]

\* the branch of login that draws a fresh verification token
LoginReissues(e, p) ==
    /\ p # "" /\ Exists(e) /\ ComparePassword(users[e], p)
    /\ users[e].role = "teacher" /\ ~users[e].isEmailVerified

Login(e, p) ==
    /\ LoginReissues(e, p) => nextTok <= MaxTokens
    /\ users' = LoginOutcome(e, p, nextTok).users
    /\ nextTok' = IF LoginReissues(e, p) THEN nextTok + 1 ELSE nextTok
    /\ issued' = issued \cup LoginOutcome(e, p, nextTok).resp.bearer
    /\ UNCHANGED <<grants, now, nextId, consumed, resetOk, rr>>
    /\ UNCHANGED flights

(* ---------------------------- forgotPassword --------------------------- *)

\* forgotPassword: 404 for an unknown email. For a known one the try block
\* calls user.getResetPasswordToken(), a method userSchema.methods does not
\* define (TypeError); the catch block then reads `user`, a const of the try
\* block that is out of scope there (ReferenceError): the handler's promise
\* rejects, nothing is written and no response is sent.
ForgotPasswordOutcome(e) ==
    IF ~Exists(e) THEN
        [users |-> users, resp |-> Resp(404, "No user found with that email", {}, {})]
    ELSE
        [users |-> users, resp |-> Resp(0, "ReferenceError", {}, {})]

ForgotPassword(e) ==
    /\ users' = ForgotPasswordOutcome(e).users
    /\ UNCHANGED <<grants, now, nextTok, nextId, issued, consumed, resetOk, rr>>
    /\ UNCHANGED flights

(* ----------------------------- resetPassword --------------------------- *)

\* User.findOne({ resetPasswordToken: sha256(raw), resetPasswordExpire: { $gt: now } })
ResetLookup(raw) ==
    {e \in Emails : Exists(e) /\
        Live(users[e].resetPasswordToken, users[e].resetPasswordExpire, Sha256(raw))}

\* the email of the document with _id uid
ById(uid) == {e \in Emails : Exists(e) /\ users[e].id = uid}

\* what the lookup step answers and writes: 400 when no document matches,
\* else nothing yet (status 0) and the handler goes on to the save
ResetFindOutcome(raw) ==
    IF ResetLookup(raw) = {}
    THEN [users |-> users, resp |-> Resp(400, "Invalid or expired token", {}, {})]
    ELSE [users |-> users, resp |-> Resp(0, "found", {}, {})]

\* first awaited step: the lookup
ResetFind(raw, pw) ==
    /\ users' = ResetFindOutcome(raw).users
    /\ IF ResetFindOutcome(raw).resp.status = 400
       THEN UNCHANGED rr
       ELSE /\ BagCardinality(rr) < MaxResetReqs
            /\ \E e \in ResetLookup(raw) :
                  rr' = rr (+) SetToBag({ResetReq(raw, pw, users[e].id)})
    /\ UNCHANGED <<grants, now, nextTok, nextId, issued, consumed, resetOk>>
    /\ UNCHANGED flights

\* user.password = req.body.password, the two reset fields cleared, and
\* user.save(): the password is a modified path
ResetWrite(u, pw) ==
    PreSave([u EXCEPT !.password = <<pw>>,
                      !.resetPasswordToken = Unset,
                      !.resetPasswordExpire = Unset], TRUE)

\* what the save step answers and writes for the request q: the save
\* validates the modified password (minlength) and fails when the document
\* is gone, and the catch answers 500
ResetSaveOutcome(q) ==
    IF ById(q.uid) = {} \/ PwLen(q.pw) < MinPasswordLen
    THEN [users |-> users, resp |-> Resp(500, "Server error", {}, {})]
    ELSE LET e == CHOOSE x \in ById(q.uid) : TRUE
         IN  [users |-> [users EXCEPT ![e] = ResetWrite(users[e], q.pw)],
              resp |-> Resp(200, "ok", {q.uid}, {})]

\* second awaited step: user.save() and the response
ResetSave(q) ==
    /\ q \in BagToSet(rr)
    /\ users' = ResetSaveOutcome(q).users
    /\ issued' = issued \cup ResetSaveOutcome(q).resp.bearer
    /\ resetOk' = IF ResetSaveOutcome(q).resp.status = 200
                  THEN [resetOk EXCEPT ![q.tok] = @ + 1]
                  ELSE resetOk
    /\ rr' = rr (-) SetToBag({q})
    /\ UNCHANGED <<grants, now, nextTok, nextId, consumed>>
    /\ UNCHANGED flights

(* ------------------------------ verifyEmail ---------------------------- *)

\* User.findOne({ emailVerificationToken: sha256(raw), emailVerificationExpire: { $gt: now } })
VerifyLookup(raw) ==
    {e \in Emails : Exists(e) /\
        Live(users[e].emailVerificationToken, users[e].emailVerificationExpire, Sha256(raw))}

\* User.findOne({ emailVerificationToken: sha256(raw) })
ExpiredLookup(raw) ==
    {e \in Emails : Exists(e) /\ users[e].emailVerificationToken = Sha256(raw)}

\* variant of VerifyWrite: the flag is set and the token fields are kept
VerifyWriteKeepsToken(u) ==
    PreSave([u EXCEPT !.isEmailVerified = TRUE], FALSE)

\* the fields verifyEmail sets on the document, and user.save()
VerifyWrite(u) ==
    PreSave([u EXCEPT !.isEmailVerified = TRUE,
                      !.emailVerificationToken = Unset,
                      !.emailVerificationExpire = Unset], FALSE)

\* TeacherEmail.findByIdAndUpdate(user.teacherEmailId, { isUsed: true }),
\* run only for a teacher whose document carries teacherEmailId
VerifyGrants(e, u) ==
    IF u.role = "teacher" /\ TeacherEmailId(u) # Unset /\ grants[e] # NoGrant
    THEN [grants EXCEPT ![e].isUsed = TRUE]
    ELSE grants

\* what verifyEmail answers and writes for the raw token of the URL.
\* saveOk: user.save() succeeds; it runs after the update of the grant, and
\* when it throws the handler answers 500 and the update of the grant stays
VerifyEmailOutcome(raw, saveOk) ==
    IF VerifyLookup(raw) = {} THEN
        [users |-> users, grants |-> grants,
         resp |-> Resp(400, IF ExpiredLookup(raw) # {} THEN "TOKEN_EXPIRED"
                            ELSE "INVALID_TOKEN", {}, {})]
    ELSE LET e == CHOOSE x \in VerifyLookup(raw) : TRUE
         IN  IF ~saveOk THEN
                 [users |-> users,
                  grants |-> VerifyGrants(e, users[e]),
                  resp |-> Resp(500, "SERVER_ERROR", {}, {})]
             ELSE
                 [users |-> [users EXCEPT ![e] = VerifyWrite(users[e])],
                  grants |-> VerifyGrants(e, users[e]),
                  resp |-> Resp(200, "verified", {users[e].id}, {})]

VerifyEmail(raw, saveOk) ==
    /\ VerifyLookup(raw) = {} => saveOk
    /\ users' = VerifyEmailOutcome(raw, saveOk).users
    /\ grants' = VerifyEmailOutcome(raw, saveOk).grants
    /\ issued' = issued \cup VerifyEmailOutcome(raw, saveOk).resp.bearer
    /\ consumed' = IF VerifyEmailOutcome(raw, saveOk).resp.status = 200
                   THEN consumed \cup {raw} ELSE consumed
    /\ UNCHANGED <<now, nextTok, nextId, resetOk, rr>>
    /\ UNCHANGED flights

(* ------------------------- protect and authorize ----------------------- *)

\* the Authorization header of a request: none (or not a Bearer header), a
\* token jwt.verify rejects as malformed or badly signed, a token past its
\* expiry, or a token that verifies; sub is the id in the payload
NoBearer          == [kind |-> "none", sub |-> 0]
MalformedBearer   == [kind |-> "malformed", sub |-> 0]
ExpiredBearer(id) == [kind |-> "expired", sub |-> id]
ValidBearer(id)   == [kind |-> "valid", sub |-> id]

\* the headers a client can present: a token verifies only if getSignedJwtToken
\* signed it in a response
Bearers ==
    {NoBearer, MalformedBearer}
        \cup {ExpiredBearer(id) : id \in Ids} \cup {ValidBearer(id) : id \in issued}

\* the role lists the routers hand to authorize(...)
RoleSets == {{"admin"}, {"teacher", "admin"}, {"student", "teacher", "admin"}}

\* jwt.verify(token, JWT_SECRET): "ok" or the name of the error it throws
JwtVerify(tok) ==
    CASE tok.kind = "valid"   -> "ok"
      [] tok.kind = "expired" -> "TokenExpiredError"
      [] OTHER                -> "JsonWebTokenError"

\* req.user before protect has set it, and the null findById returns
Nobody == [attached |-> FALSE]
Null   == [null |-> TRUE]

NoResp == Resp(0, "", {}, {})

\* User.findById(decoded.id).select('-password')
FindById(id) ==
    IF ById(id) = {} THEN Null
    ELSE LET u == users[CHOOSE e \in ById(id) : TRUE]
         IN  [id |-> u.id, role |-> u.role, isEmailVerified |-> u.isEmailVerified]

\* an error object: its name, its code (11000 for a duplicate key, else 0),
\* its statusCode (0 when it carries none) and its message ("" when empty)
Err(name, code, statusCode, message) ==
    [name |-> name, code |-> code, statusCode |-> statusCode, message |-> message]

\* reading a property of null
TypeError == Err("TypeError", 0, 0, "Cannot read properties of null")

\* no error
NoError == Err("", 0, 0, "")

\* the kinds of error errorHandler has a branch of its own for
ErrorNames ==
    {"ValidationError", "CastError", "TokenExpiredError", "JsonWebTokenError",
     "MulterError"}

\* the errors a handler passes to next(err): an ApiError with its statusCode,
\* a plain Error without one, an error of a named kind, a duplicate key
ThrownErrors ==
    {Err("Error", 0, sc, m) : sc \in {0, 403, 404},
                              m \in {"Video not found", "Some server error"}}
        \cup {Err(n, 0, 0, "failed") : n \in ErrorNames}
        \cup {Err("MongoServerError", 11000, 0, "duplicate key")}

\* the names error/errorHandler.js binds: it imports errorResponse of
\* apiResponse.js under the name `error`
ErrorHandlerBindings ==
    {"error", "MongooseError", "jwt", "JsonWebTokenError", "TokenExpiredError",
     "errorHandler"}

\* the status and message the branches of errorHandler hand to errorResponse
ErrorResponseArgs(err) ==
    IF err.name = "ValidationError" THEN
        [status |-> 400, message |-> "Validation Error"]
    ELSE IF err.code = 11000 THEN
        [status |-> 400, message |-> "field already exists"]
    ELSE IF err.name = "CastError" THEN
        [status |-> 400, message |-> "Invalid ID format"]
    ELSE IF err.name = "TokenExpiredError" THEN
        [status |-> 401, message |-> "Token expired"]
    ELSE IF err.name = "JsonWebTokenError" THEN
        [status |-> 401, message |-> "Invalid token"]
    ELSE IF err.name = "MulterError" THEN
        [status |-> 400, message |-> "File upload error"]
    ELSE
        [status |-> IF err.statusCode # 0 THEN err.statusCode ELSE 500,
         message |-> IF err.message # "" THEN err.message ELSE "Internal Server Error"]

\* the global error handler app.js installs, for an error passed to next(err)
\* or thrown by a synchronous middleware. Every branch of it answers through
\* errorResponse, a name the module does not bind: the call throws a
\* ReferenceError and the final handler of Express answers 500.
ErrorHandler(err) ==
    IF "errorResponse" \in ErrorHandlerBindings
    THEN Resp(ErrorResponseArgs(err).status, ErrorResponseArgs(err).message, {}, {})
    ELSE Resp(500, "Internal Server Error", {}, {})

\* variant of ProtectOutcome: a request without a token is let through
ProtectOutcomeOpen(tok) ==
    IF tok.kind # "none" /\ JwtVerify(tok) # "ok" THEN
        [user |-> Nobody, next |-> FALSE,
         resp |-> Resp(401, "Not authorized, token failed", {}, {})]
    ELSE
        [user |-> IF tok.kind = "none" THEN Nobody ELSE FindById(tok.sub),
         next |-> TRUE, resp |-> NoResp]

\* protect: what it attaches to the request, whether it calls next(), and
\* what it answers when it does not
ProtectOutcome(tok) ==
    IF tok.kind = "none" THEN
        [user |-> Nobody, next |-> FALSE,
         resp |-> Resp(401, "Not authorized to access this route", {}, {})]
    ELSE IF JwtVerify(tok) # "ok" THEN
        [user |-> Nobody, next |-> FALSE,
         resp |-> Resp(401, "Not authorized, token failed", {}, {})]
    ELSE
        [user |-> FindById(tok.sub), next |-> TRUE, resp |-> NoResp]

\* `User role ${req.user.role} is not authorized to access this route`
RoleMessage(role) ==
    CASE role = "student" -> "User role student is not authorized to access this route"
      [] role = "teacher" -> "User role teacher is not authorized to access this route"
      [] OTHER            -> "User role admin is not authorized to access this route"

\* variant of AuthorizeOutcome: any attached identity is let through
AuthorizeOutcomeAnyRole(user, roles) ==
    IF user = Null \/ user = Nobody THEN
        [next |-> FALSE, resp |-> ErrorHandler(TypeError)]
    ELSE
        [next |-> TRUE, resp |-> NoResp]

\* authorize(...roles): reading req.user.role of a null or missing req.user
\* throws a TypeError, which Express hands to the error handler
AuthorizeOutcome(user, roles) ==
    IF user = Null \/ user = Nobody THEN
        [next |-> FALSE, resp |-> ErrorHandler(TypeError)]
    ELSE IF user.role \notin roles THEN
        [next |-> FALSE, resp |-> Resp(403, RoleMessage(user.role), {}, {})]
    ELSE
        [next |-> TRUE, resp |-> NoResp]

\* a request with header tok reaches a route guarded by protect and
\* authorize(roles): protect runs
Protect(tok, roles) ==
    /\ req.stage = "idle"
    /\ req' = [stage |-> IF ProtectOutcome(tok).next THEN "protected" ELSE "rejected",
               tok |-> tok, roles |-> roles,
               user |-> ProtectOutcome(tok).user,
               err |-> NoError,
               resp |-> ProtectOutcome(tok).resp]
    /\ UNCHANGED <<users, grants, now, nextTok, nextId, issued, consumed, resetOk, rr,
                   reg, inserted, answers>>

\* next() of protect: authorize(roles) runs on the request
Authorize ==
    /\ req.stage = "protected"
    /\ req' = [req EXCEPT
                 !.stage = IF AuthorizeOutcome(req.user, req.roles).next
                           THEN "authorized" ELSE "rejected",
                 !.resp = AuthorizeOutcome(req.user, req.roles).resp]
    /\ UNCHANGED <<users, grants, now, nextTok, nextId, issued, consumed, resetOk, rr,
                   reg, inserted, answers>>

\* next() of authorize: the route's handler runs and answers
Handle ==
    /\ req.stage = "authorized"
    /\ req' = [req EXCEPT !.stage = "handled", !.resp = Resp(200, "handled", {}, {})]
    /\ UNCHANGED <<users, grants, now, nextTok, nextId, issued, consumed, resetOk, rr,
                   reg, inserted, answers>>

\* next() of authorize: the route's handler runs and fails, handing err to
\* next(err); the error handler answers
Fail(err) ==
    /\ req.stage = "authorized"
    /\ req' = [req EXCEPT !.stage = "failed", !.err = err, !.resp = ErrorHandler(err)]
    /\ UNCHANGED <<users, grants, now, nextTok, nextId, issued, consumed, resetOk, rr,
                   reg, inserted, answers>>

\* the response has been sent: the request is over
EndRequest ==
    /\ req.stage \in {"rejected", "handled", "failed"}
    /\ req' = NoRequest
    /\ UNCHANGED <<users, grants, now, nextTok, nextId, issued, consumed, resetOk, rr,
                   reg, inserted, answers>>

(* ------------------------- teacher pre-authorization ------------------- *)

\* protect + authorize('admin'): the admins that hold a bearer token
Admins ==
    {a \in Emails : Exists(a) /\ users[a].id \in issued /\
        AuthorizeOutcome(ProtectOutcome(ValidBearer(users[a].id)).user, {"admin"}).next}

\* variant of IsTeacherAddress: any address passes
IsTeacherAddressAny(e) == TRUE

\* email.match(/^[^\s@]+@git\.edu$/i)
IsTeacherAddress(e) == e.domain = "git.edu"

\* addTeacherEmail: TeacherEmail.create({ email, isVerified: false, addedBy });
\* verificationExpires takes the schema default, computed once when the
\* schema is defined
NewGrant ==
    [isVerified |-> FALSE, isUsed |-> FALSE,
     verificationCode |-> Unset, verificationExpires |-> At(CodeTTL)]

AddTeacherEmailOutcome(e) ==
    IF ~IsTeacherAddress(e) THEN
        [grants |-> grants, resp |-> Resp(400, "not_git_edu", {}, {})]
    ELSE IF grants[e] # NoGrant THEN
        [grants |-> grants, resp |-> Resp(400, "This email is already in the system", {}, {})]
    ELSE
        [grants |-> [grants EXCEPT ![e] = NewGrant], resp |-> Resp(201, "added", {}, {})]

AddTeacherEmail(e) ==
    /\ Admins # {}
    /\ grants' = AddTeacherEmailOutcome(e).grants
    /\ UNCHANGED <<users, now, nextTok, nextId, issued, consumed, resetOk, rr>>
    /\ UNCHANGED flights

\* variant of GenerateVerificationCode: a new code makes the grant
\* unverified again
GenerateVerificationCodeResets(g, code) ==
    [g EXCEPT !.verificationCode = <<code>>,
              !.verificationExpires = At(now + CodeTTL),
              !.isVerified = FALSE]

\* teacherEmailSchema.methods.generateVerificationCode
GenerateVerificationCode(g, code) ==
    [g EXCEPT !.verificationCode = <<code>>,
              !.verificationExpires = At(now + CodeTTL)]

\* variant of RequestTeacherVerificationOutcome: a grant that is used gets a
\* fresh code like any other
RequestTeacherVerificationOutcomeAnyGrant(e, code, mailOk) ==
    IF grants[e] = NoGrant THEN
        [grants |-> grants, resp |-> Resp(400, "not_authorized", {}, {})]
    ELSE
        [grants |-> [grants EXCEPT ![e] = GenerateVerificationCode(grants[e], code)],
         resp |-> IF mailOk THEN Resp(200, "code_sent", {}, {})
                  ELSE Resp(500, "mail_failed", {}, {})]

RequestTeacherVerificationOutcome(e, code, mailOk) ==
    IF grants[e] = NoGrant THEN
        [grants |-> grants, resp |-> Resp(400, "not_authorized", {}, {})]
    ELSE IF grants[e].isUsed THEN
        [grants |-> grants, resp |-> Resp(400, "already_used", {}, {})]
    ELSE
        [grants |-> [grants EXCEPT ![e] = GenerateVerificationCode(grants[e], code)],
         resp |-> IF mailOk THEN Resp(200, "code_sent", {}, {})
                  ELSE Resp(500, "mail_failed", {}, {})]

RequestTeacherVerification(e, code, mailOk) ==
    /\ grants' = RequestTeacherVerificationOutcome(e, code, mailOk).grants
    /\ UNCHANGED <<users, now, nextTok, nextId, issued, consumed, resetOk, rr>>
    /\ UNCHANGED flights

\* the filter term verificationCode: code of verifyTeacher's findOne. code is
\* read from the body unvalidated and is undefined when the body has none;
\* such a term is either sent as null, which matches a grant that holds no
\* code, or left out of the filter (dropped), which matches any grant
CodeTermMatches(stored, code, dropped) ==
    IF code = Unset THEN dropped \/ stored = Unset ELSE stored = code

\* uploadTeacherEmails for a file listing the addresses in file: the lines
\* that are not git.edu addresses are filtered out, an address that has a
\* grant is skipped, and each of the others gets a new grant with a code
UploadTeacherEmailsOutcome(file, code) ==
    [grants |-> [e \in Emails |->
                    IF e \in file /\ IsTeacherAddress(e) /\ grants[e] = NoGrant
                    THEN GenerateVerificationCode(NewGrant, code)
                    ELSE grants[e]],
     resp |-> Resp(200, "processed", {}, {})]

UploadTeacherEmails(file, code) ==
    /\ Admins # {}
    /\ grants' = UploadTeacherEmailsOutcome(file, code).grants
    /\ UNCHANGED <<users, now, nextTok, nextId, issued, consumed, resetOk, rr>>
    /\ UNCHANGED flights

\* TeacherEmail.findOne({ email, verificationCode: code,
\*                        verificationExpires: { $gt: now }, isUsed: false })
CodeMatches(e, code, dropped) ==
    /\ grants[e] # NoGrant
    /\ CodeTermMatches(grants[e].verificationCode, code, dropped)
    /\ grants[e].verificationExpires # Unset
    /\ grants[e].verificationExpires[1] > now
    /\ ~grants[e].isUsed

VerifyTeacherOutcome(e, code, dropped) ==
    IF ~CodeMatches(e, code, dropped) THEN
        [grants |-> grants, resp |-> Resp(400, "Invalid or expired verification code", {}, {})]
    ELSE
        [grants |-> [grants EXCEPT ![e].isVerified = TRUE,
                                   ![e].verificationCode = Unset],
         resp |-> Resp(200, "verified", {}, {})]

VerifyTeacher(e, code, dropped) ==
    /\ grants' = VerifyTeacherOutcome(e, code, dropped).grants
    /\ UNCHANGED <<users, now, nextTok, nextId, issued, consumed, resetOk, rr>>
    /\ UNCHANGED flights

(* ------------------------------- doubts -------------------------------- *)

\* _id of the answers; params.answerId may also name none of them
AnswerIds == 1..MaxAnswers
AnswerParams == AnswerIds \cup {0}

\* the Doubt the routes are tried on, and a params.id that finds none
DoubtId == "doubt"
DoubtParams == {DoubtId, "missing"}

\* body.vote as sent
Votes == {"up", "down", "sideways"}

\* an _id the doubt has not handed out yet, and one whose answer was spliced
NoAnswer == [absent |-> TRUE]
Removed  == [removed |-> TRUE]

IsAnswer(x) == x # NoAnswer /\ x # Removed

\* a stored reference (Schema.Types.ObjectId) and its 24-digit hex string:
\* the schema casts the string pushed into upvotes or downvotes to the
\* ObjectId, toString() gives the string back (ToHexString)
ObjectId(hex) == [oid |-> hex]
ToHexString(oid) == oid.oid

\* req.user.id, the id virtual of the Identity protect attached
UserId(user) == user.id

Range(list) == {list[i] : i \in 1..Len(list)}

\* variant of HasVoted: the comparison never matches
HasVotedNever(list, id) == FALSE

\* list.some(userId => userId.toString() === req.user.id)
HasVoted(list, id) == \E i \in 1..Len(list) : ToHexString(list[i]) = id

\* list.filter(userId => userId.toString() !== req.user.id)
WithoutVote(list, id) ==
    LET keep(x) == ToHexString(x) # id IN SelectSeq(list, keep)

\* the answer with the vote applied
VoteWrite(answer, id, vote) ==
    IF vote = "up" THEN
        IF HasVoted(answer.upvotes, id)
        THEN [answer EXCEPT !.upvotes = WithoutVote(@, id)]
        ELSE [answer EXCEPT !.upvotes = Append(@, ObjectId(id)),
                            !.downvotes = WithoutVote(@, id)]
    ELSE
        IF HasVoted(answer.downvotes, id)
        THEN [answer EXCEPT !.downvotes = WithoutVote(@, id)]
        ELSE [answer EXCEPT !.downvotes = Append(@, ObjectId(id)),
                            !.upvotes = WithoutVote(@, id)]

\* userVote of the response: the vote held before the request
UserVote(answer, id) ==
    IF HasVoted(answer.upvotes, id) THEN "up"
    ELSE IF HasVoted(answer.downvotes, id) THEN "down" ELSE "null"

\* voteAnswer, behind protect, for req.user, params.id, params.answerId and
\* body.vote. A null req.user makes req.user.id throw before doubt.save();
\* the catch answers 500
VoteAnswerOutcome(user, d, answerId, vote) ==
    IF vote \notin {"up", "down"} THEN
        [answers |-> answers, resp |-> Resp(400, "invalid_vote", {}, {})]
    ELSE IF d # DoubtId THEN
        [answers |-> answers, resp |-> Resp(404, "Doubt not found", {}, {})]
    ELSE IF answerId \notin AnswerIds \/ ~IsAnswer(answers[answerId]) THEN
        [answers |-> answers, resp |-> Resp(404, "Answer not found", {}, {})]
    ELSE IF user = Null THEN
        [answers |-> answers, resp |-> Resp(500, "Server error", {}, {})]
    ELSE
        [answers |-> [answers EXCEPT
                        ![answerId] = VoteWrite(@, UserId(user), vote)],
         resp |-> Resp(200, UserVote(answers[answerId], UserId(user)), {}, {})]

VoteAnswer(tok, d, answerId, vote) ==
    /\ ProtectOutcome(tok).next
    /\ answers' = VoteAnswerOutcome(ProtectOutcome(tok).user, d, answerId, vote).answers
    /\ UNCHANGED <<users, grants, now, nextTok, nextId, issued, consumed, resetOk, rr,
                   req, reg, inserted>>

\* addAnswer, behind protect: doubt.answers.push({content, answeredBy}) with
\* a fresh _id and the schema's empty upvotes and downvotes. hasAccess: the
\* student is enrolled in the course of the doubt, or the teacher teaches it
AddAnswerOutcome(user, d, hasAccess) ==
    IF d # DoubtId THEN
        [answers |-> answers, resp |-> Resp(404, "Doubt not found", {}, {})]
    ELSE IF user = Null THEN
        [answers |-> answers, resp |-> Resp(500, "Server error", {}, {})]
    ELSE IF user.role # "admin" /\ ~hasAccess THEN
        [answers |-> answers, resp |-> Resp(401, "not_authorized", {}, {})]
    ELSE IF \A a \in AnswerIds : answers[a] # NoAnswer THEN
        [answers |-> answers, resp |-> Resp(0, "", {}, {})]
    ELSE LET a == CHOOSE x \in AnswerIds :
                     answers[x] = NoAnswer
                        /\ \A y \in AnswerIds : answers[y] = NoAnswer => x <= y
         IN  [answers |-> [answers EXCEPT
                             ![a] = [answeredBy |-> ObjectId(UserId(user)),
                                     upvotes |-> <<>>, downvotes |-> <<>>]],
              resp |-> Resp(201, "answered", {}, {})]

AddAnswer(tok, d, hasAccess) ==
    /\ ProtectOutcome(tok).next
    /\ AddAnswerOutcome(ProtectOutcome(tok).user, d, hasAccess).resp.status # 0
    /\ answers' = AddAnswerOutcome(ProtectOutcome(tok).user, d, hasAccess).answers
    /\ UNCHANGED <<users, grants, now, nextTok, nextId, issued, consumed, resetOk, rr,
                   req, reg, inserted>>

\* deleteAnswer, behind protect: doubt.answers.splice(answerIndex, 1) for the
\* author of the answer, an admin or the teacher of the course
DeleteAnswerOutcome(user, d, answerId, isCourseTeacher) ==
    IF d # DoubtId THEN
        [answers |-> answers, resp |-> Resp(404, "Doubt not found", {}, {})]
    ELSE IF answerId \notin AnswerIds \/ ~IsAnswer(answers[answerId]) THEN
        [answers |-> answers, resp |-> Resp(404, "Answer not found", {}, {})]
    ELSE IF user = Null THEN
        [answers |-> answers, resp |-> Resp(500, "Server error", {}, {})]
    ELSE IF /\ ToHexString(answers[answerId].answeredBy) # UserId(user)
            /\ user.role # "admin"
            /\ ~isCourseTeacher THEN
        [answers |-> answers, resp |-> Resp(401, "not_authorized", {}, {})]
    ELSE
        [answers |-> [answers EXCEPT ![answerId] = Removed],
         resp |-> Resp(200, "deleted", {}, {})]

DeleteAnswer(tok, d, answerId, isCourseTeacher) ==
    /\ ProtectOutcome(tok).next
    /\ answers' = DeleteAnswerOutcome(ProtectOutcome(tok).user, d, answerId,
                                      isCourseTeacher).answers
    /\ UNCHANGED <<users, grants, now, nextTok, nextId, issued, consumed, resetOk, rr,
                   req, reg, inserted>>

(* ------------------------------ deleteUser ----------------------------- *)

\* deleteUser, behind protect and authorize('admin'): 404 for an unknown id,
\* 400 for the admin's own account, else user.remove()
DeleteUserOutcome(a, e) ==
    IF ~Exists(e) THEN
        [users |-> users, resp |-> Resp(404, "User not found", {}, {})]
    ELSE IF e = a THEN
        [users |-> users, resp |-> Resp(400, "own_account", {}, {})]
    ELSE
        [users |-> [users EXCEPT ![e] = NoUser], resp |-> Resp(200, "deleted", {}, {})]

DeleteUser(a, e) ==
    /\ a \in Admins
    /\ users' = DeleteUserOutcome(a, e).users
    /\ UNCHANGED <<grants, now, nextTok, nextId, issued, consumed, resetOk, rr>>
    /\ UNCHANGED flights

(* -------------------------------- time --------------------------------- *)

Tick ==
    /\ now < MaxTime
    /\ now' = now + 1
    /\ UNCHANGED <<users, grants, nextTok, nextId, issued, consumed, resetOk, rr>>
    /\ UNCHANGED flights

\* twenty-four hours pass
NextDay ==
    /\ now + CodeTTL <= MaxDays * CodeTTL + MaxTime
    /\ now' = now + CodeTTL
    /\ UNCHANGED <<users, grants, nextTok, nextId, issued, consumed, resetOk, rr>>
    /\ UNCHANGED flights

(* --------------------------- specification ----------------------------- *)

\* an Identity written before this run: a student with a pending
\* password-reset token (raw token 1) issued at time 0
SeededStudent ==
    [id |-> 1,
     role |-> "student",
     password |-> BcryptHash("secret"),
     isEmailVerified |-> TRUE,
     emailVerificationToken |-> Unset,
     emailVerificationExpire |-> Unset,
     resetPasswordToken |-> Sha256(1),
     resetPasswordExpire |-> At(TokenTTL)]

\* a grant written before this run: verified and consumed
SeededGrant ==
    [isVerified |-> TRUE, isUsed |-> TRUE,
     verificationCode |-> Unset, verificationExpires |-> At(CodeTTL)]

EmptyUsers  == [e \in Emails |-> NoUser]
EmptyGrants == [e \in Emails |-> NoGrant]

Init ==
    /\ users = [EmptyUsers EXCEPT ![StudentAddr] = SeededStudent]
    /\ grants = [EmptyGrants EXCEPT ![UsedAddr] = SeededGrant]
    /\ now = 0
    /\ nextTok = 2
    /\ nextId = 2
    /\ issued = {}
    /\ consumed = {}
    /\ resetOk = [t \in Tokens |-> 0]
    /\ rr = EmptyBag
    /\ req = NoRequest
    /\ reg = EmptyBag
    /\ inserted = [e \in Emails |-> 0]
    /\ answers = [a \in AnswerIds |-> NoAnswer]

Next ==
    \/ \E route \in Routes : \E e \in RegAddrs(route), p \in RegPasswords :
         \E createOk \in BOOLEAN, mailOk \in BOOLEAN : Register(route, e, p, createOk, mailOk)
    \/ \E e \in Emails, p \in Passwords \cup {""} : Login(e, p)
    \/ \E e \in Emails : ForgotPassword(e)
    \/ \E raw \in Tokens, pw \in NewPasswords : ResetFind(raw, pw)
    \/ \E q \in BagToSet(rr) : ResetSave(q)
    \/ \E raw \in Tokens, saveOk \in BOOLEAN : VerifyEmail(raw, saveOk)
    \/ \E e \in Emails : AddTeacherEmail(e)
    \/ \E e \in Emails, code \in Codes, mailOk \in BOOLEAN :
            RequestTeacherVerification(e, code, mailOk)
    \/ \E e \in Emails, code \in Codes : VerifyTeacher(e, <<code>>, FALSE)
    \/ \E a \in Emails, e \in Emails : DeleteUser(a, e)
    \/ Tick

Spec == Init /\ [][Next]_vars

\* the guarded routes: the handlers that create, sign in and delete
\* Identities, and requests passing through protect and authorize
GuardNext ==
    \/ \E route \in Routes : \E e \in RegAddrs(route), p \in RegPasswords :
         Register(route, e, p, TRUE, TRUE)
    \/ \E e \in Emails, p \in Passwords : Login(e, p)
    \/ \E e \in Emails : AddTeacherEmail(e)
    \/ \E a \in Emails, e \in Emails : DeleteUser(a, e)
    \/ \E tok \in Bearers, roles \in RoleSets : Protect(tok, roles)
    \/ Authorize
    \/ Handle
    \/ \E err \in ThrownErrors : Fail(err)
    \/ EndRequest

GuardSpec == Init /\ [][GuardNext]_vars

\* concurrent registrations: register's lookups and its User.create as two
\* steps, with the sign-in and the grant an admin needs to add a teacher
\* address
RaceNext ==
    \/ \E route \in Routes : \E e \in RegAddrs(route), p \in RegPasswords :
         \E spelled \in Spellings, folds \in BOOLEAN :
            RegisterCheck(route, e, p, spelled, folds)
    \/ \E q \in BagToSet(reg) : RegisterCreate(q)
    \/ \E e \in Emails, p \in Passwords : Login(e, p)
    \/ \E e \in Emails : AddTeacherEmail(e)
    \/ Tick

RaceSpec == Init /\ [][RaceNext]_vars

\* the codes generateVerificationCode draws where one grant is given
\* several codes in turn
DrawnCodes == Codes \cup {"100002"}

\* the codes a client may present to verifyTeacher: the ones the server
\* draws and one it never draws
CodeInputs == DrawnCodes \cup {"000000"}

\* what the code field of a verifyTeacher body can hold: a code, or nothing
PresentedCodes == {<<c>> : c \in CodeInputs} \cup {Unset}

\* the one-time codes of the teacher grants over more than a day
CodeNext ==
    \/ \E route \in Routes : \E e \in RegAddrs(route), p \in RegPasswords :
         Register(route, e, p, TRUE, TRUE)
    \/ \E e \in Emails, p \in Passwords : Login(e, p)
    \/ \E e \in Emails : AddTeacherEmail(e)
    \/ \E e \in Emails, code \in DrawnCodes, mailOk \in BOOLEAN :
            RequestTeacherVerification(e, code, mailOk)
    \/ \E e \in Emails, code \in PresentedCodes, dropped \in BOOLEAN :
            VerifyTeacher(e, code, dropped)
    \/ Tick
    \/ NextDay

CodeSpec == Init /\ [][CodeNext]_vars

\* admin provisioning and the grants admins hand out: the three register
\* routes with the adminKey of the body as an input, sign-in, the two ways
\* an admin adds grants, and the deletion of Identities
AdminNext ==
    \/ \E route \in {"student", "teacher"}, e \in Emails, p \in RegPasswords :
         Register(route, e, p, TRUE, TRUE)
    \/ \E e \in AdminAddrs, p \in RegPasswords, key \in AdminKeys, createOk \in BOOLEAN :
         RegisterAdmin(e, p, key, createOk)
    \/ \E e \in Emails, p \in Passwords : Login(e, p)
    \/ \E e \in Emails : AddTeacherEmail(e)
    \/ \E file \in SUBSET Emails, code \in Codes : UploadTeacherEmails(file, code)
    \/ \E a \in Emails, e \in Emails : DeleteUser(a, e)
    \/ Tick

AdminSpec == Init /\ [][AdminNext]_vars

\* bearer tokens the doubt routes are tried with: none, and the tokens that
\* were issued
VoteBearers == {NoBearer} \cup {ValidBearer(id) : id \in issued}

\* the doubt routes: users register and sign in, an admin deletes accounts,
\* and the signed-in users answer the doubt and vote on its answers
VoteNext ==
    \/ \E route \in {"student", "admin"} : \E e \in RegAddrs(route) :
            Register(route, e, "password1", TRUE, TRUE)
    \/ \E e \in Emails, p \in {"secret", "password1"} : Login(e, p)
    \/ \E a \in Emails, e \in Emails : DeleteUser(a, e)
    \/ \E tok \in VoteBearers, d \in DoubtParams, hasAccess \in BOOLEAN :
            AddAnswer(tok, d, hasAccess)
    \/ \E tok \in VoteBearers, d \in DoubtParams, a \in AnswerParams, vote \in Votes :
            VoteAnswer(tok, d, a, vote)
    \/ \E tok \in VoteBearers, d \in DoubtParams, a \in AnswerParams :
         \E isCourseTeacher \in BOOLEAN : DeleteAnswer(tok, d, a, isCourseTeacher)

VoteSpec == Init /\ [][VoteNext]_vars

(* ------------------------------ properties ----------------------------- *)

UnverifiedTeacher(e) ==
    Exists(e) /\ users[e].role = "teacher" /\ ~users[e].isEmailVerified

VerifiedTeacher(e) ==
    Exists(e) /\ users[e].role = "teacher" /\ users[e].isEmailVerified

\* a grant teacher registration is meant to accept: verified and unused
UsableGrant(e) ==
    grants[e] # NoGrant /\ grants[e].isVerified /\ ~grants[e].isUsed

\* a stored token whose expiry is at or before the clock
Lapsed(tokField, expField, hash) ==
    tokField = hash /\ expField # Unset /\ expField[1] <= now

C2_UnverifiedTeacherHoldsNoToken ==
    \A e \in Emails : UnverifiedTeacher(e) => users[e].id \notin issued

\* C3: register/teacher creates an Identity only against a grant that is
\* verified and unused; without one it answers 400 and creates nothing.
C3_TeacherNeedsVerifiedUnusedGrant ==
    \A e \in Emails, p \in RegPasswords :
        LET o == RegisterOutcome("teacher", e, p, TRUE, TRUE, nextId, nextTok)
        IN  /\ o.users # users => UsableGrant(e)
            /\ ~UsableGrant(e) => (o.resp.status = 400 /\ o.users = users)

\* C4: forgotPassword for an existing email answers 200 and leaves on that
\* Identity a hashed reset token whose expiry is ten minutes ahead.
C4_ForgotPasswordStoresToken ==
    \A e \in Emails : Exists(e) =>
        LET o == ForgotPasswordOutcome(e)
        IN  /\ o.resp.status = 200
            /\ o.users[e].resetPasswordToken # Unset
            /\ o.users[e].resetPasswordExpire = At(now + TokenTTL)

\* C5: a raw token verifyEmail has succeeded on is rejected with 400 by every
\* later verifyEmail, which leaves the Identities and the grants unchanged.
C5_VerificationTokenSingleUse ==
    \A raw \in consumed :
        /\ VerifyEmailOutcome(raw, TRUE).resp.status = 400
        /\ VerifyEmailOutcome(raw, TRUE).users = users
        /\ VerifyEmailOutcome(raw, TRUE).grants = grants

\* a verification token has been consumed and the ten minutes it was issued
\* for have not passed
C5_Witness ==
    /\ now < TokenTTL
    /\ \E raw \in consumed : \E e \in Emails : VerifiedTeacher(e)

\* C6: a token presented at or after its stored expiry takes no effect:
\* verifyEmail answers 400 TOKEN_EXPIRED (400 INVALID_TOKEN for a token no
\* Identity stores), resetPassword answers 400, and nothing is written.
C6_LapsedTokenTakesNoEffect ==
    \A raw \in Tokens :
        /\ (\E e \in Emails : Exists(e) /\
                Lapsed(users[e].emailVerificationToken,
                       users[e].emailVerificationExpire, Sha256(raw)))
            => VerifyEmailOutcome(raw, TRUE) =
                 [users |-> users, grants |-> grants,
                  resp |-> Resp(400, "TOKEN_EXPIRED", {}, {})]
        /\ ExpiredLookup(raw) = {}
            => VerifyEmailOutcome(raw, TRUE) =
                 [users |-> users, grants |-> grants,
                  resp |-> Resp(400, "INVALID_TOKEN", {}, {})]
        /\ (\E e \in Emails : Exists(e) /\
                Lapsed(users[e].resetPasswordToken,
                       users[e].resetPasswordExpire, Sha256(raw)))
            => /\ ResetFindOutcome(raw).resp.status = 400
               /\ ResetFindOutcome(raw).users = users

\* the clock stands exactly at the expiry of a stored verification token and
\* of a stored reset token
C6_Witness ==
    /\ \E e \in Emails : Exists(e) /\ users[e].emailVerificationToken # Unset
                         /\ users[e].emailVerificationExpire = At(now)
    /\ \E e \in Emails : Exists(e) /\ users[e].resetPasswordToken # Unset
                         /\ users[e].resetPasswordExpire = At(now)

\* C7: a login with an existing email and a wrong password and a login with
\* an email no Identity has get the same response, 401 'Invalid credentials',
\* and neither writes anything.
C7_LoginHidesAccountExistence ==
    \A e1 \in Emails, e2 \in Emails, p \in Passwords :
        (Exists(e1) /\ ~ComparePassword(users[e1], p) /\ ~Exists(e2)) =>
            /\ LoginOutcome(e1, p, nextTok).resp = LoginOutcome(e2, p, nextTok).resp
            /\ LoginOutcome(e1, p, nextTok).resp.status = 401
            /\ LoginOutcome(e1, p, nextTok).resp.code = "Invalid credentials"
            /\ LoginOutcome(e1, p, nextTok).users = users
            /\ LoginOutcome(e2, p, nextTok).users = users

\* an unverified teacher (the Identity a successful login writes to), a wrong
\* password for it, and an address without an Identity
C7_Witness ==
    \E e1 \in Emails, e2 \in Emails, p \in Passwords :
        /\ UnverifiedTeacher(e1) /\ ~ComparePassword(users[e1], p)
        /\ ~Exists(e2)

\* C8: a forgotPassword for an existing email that does not end in 200
\* reports 500 and leaves both reset fields of the Identity cleared.
C8_FailedForgotPasswordRollsBack ==
    \A e \in Emails :
        (Exists(e) /\ ForgotPasswordOutcome(e).resp.status # 200) =>
            /\ ForgotPasswordOutcome(e).resp.status = 500
            /\ ForgotPasswordOutcome(e).users[e].resetPasswordToken = Unset
            /\ ForgotPasswordOutcome(e).users[e].resetPasswordExpire = Unset

\* C9: once a teacher Identity exists and its email is verified, the grant of
\* its address is marked used.
C9_VerifiedTeacherGrantUsed ==
    \A e \in Emails : VerifiedTeacher(e) => (grants[e] # NoGrant /\ grants[e].isUsed)

\* C10: when User.create fails in a teacher registration that passed every
\* check, the answer is 500, no Identity is written and the grant stays unused.
C10_GrantUnusedWhenCreateFails ==
    \A e \in Emails, p \in RegPasswords, mailOk \in BOOLEAN :
        RegisterReject("teacher", e, p) = "" =>
            LET o == RegisterOutcome("teacher", e, p, FALSE, mailOk, nextId, nextTok)
            IN  /\ o.resp.status = 500
                /\ o.users = users
                /\ o.grants[e] # NoGrant
                /\ ~o.grants[e].isUsed

\* a teacher registration that passes every check before User.create
C10_Witness ==
    \E e \in Emails, p \in RegPasswords :
        /\ RegisterReject("teacher", e, p) = ""
        /\ grants[e] # NoGrant /\ ~grants[e].isUsed

\* an Identity is attached to the request in the middleware
IdentityAttached ==
    req.stage # "idle" /\ req.user # Null /\ req.user # Nobody

\* C11: a request without a bearer token is answered 401 'Not authorized to
\* access this route' by protect, gets no identity attached and goes no
\* further than protect.
C11_NoTokenRejected ==
    (req.stage # "idle" /\ req.tok = NoBearer) =>
        /\ req.stage = "rejected"
        /\ req.user = Nobody
        /\ req.resp = Resp(401, "Not authorized to access this route", {}, {})

\* protect has answered a request that carried no token
C11_Witness ==
    req.stage # "idle" /\ req.tok = NoBearer /\ req.resp.status = 401

\* C12: protect continues to the next handler only with an Identity attached:
\* a verified token whose subject has no Identity does not pass.
C12_ProtectPassesOnlyIdentities ==
    (req.stage # "idle" /\ req.stage # "rejected") => req.user # Null

\* C13: a request that reaches authorize with no identity attached is answered
\* 401 'Not authorized to access this route'.
C13_AuthorizeWithoutIdentity ==
    (req.stage = "rejected" /\ req.tok.kind = "valid" /\ req.user = Null) =>
        req.resp = Resp(401, "Not authorized to access this route", {}, {})

\* C14: with an identity attached, authorize lets the request through to the
\* handler only if the identity's role is in the allowed set, and rejects it
\* only if the role is not, with 403 and a message naming the role.
C14_AuthorizeByRole ==
    IdentityAttached =>
        /\ req.stage \in {"authorized", "handled"} => req.user.role \in req.roles
        /\ req.stage = "rejected" =>
              /\ req.user.role \notin req.roles
              /\ req.resp = Resp(403, RoleMessage(req.user.role), {}, {})

\* authorize has rejected an attached identity for its role
C14_Witness ==
    IdentityAttached /\ req.stage = "rejected" /\ req.resp.status = 403

\* C15: a request with an expired token and a request with a malformed token
\* get different messages, 'Token expired' and 'Invalid token'.
C15_TokenFailuresDistinct ==
    \A id \in Ids :
        /\ ProtectOutcome(ExpiredBearer(id)).resp.code
              # ProtectOutcome(MalformedBearer).resp.code
        /\ ProtectOutcome(ExpiredBearer(id)).resp.code = "Token expired"
        /\ ProtectOutcome(MalformedBearer).resp.code = "Invalid token"

\* the domain register is meant to require of an address on a route
RequiredDomain(route) ==
    IF route = "teacher" THEN "git.edu" ELSE "students.git.edu"

\* C16: a student or teacher registration whose address is not of the domain
\* its role requires is answered 400 for the domain, whether or not the
\* address has an Identity, and writes nothing.
C16_DomainMismatchRejectedFirst ==
    \A route \in {"student", "teacher"}, e \in Emails, p \in RegPasswords :
        (ValidationOk(route, p) /\ e.domain # RequiredDomain(route)) =>
            LET o == RegisterOutcome(route, e, p, TRUE, TRUE, nextId, nextTok)
            IN  /\ o.resp = Resp(400, "domain", {}, {})
                /\ o.users = users
                /\ o.grants = grants

\* C17: a student registration with a students.git.edu address not in use
\* and a password of six or more characters answers 201 without a token,
\* sends no email and stores one Identity: a student, verified, with no
\* pending verification token; nothing else is written.
C17_StudentRegistration ==
    \A e \in Emails, p \in RegPasswords, mailOk \in BOOLEAN :
        (e.domain = "students.git.edu" /\ ~Exists(e) /\ PwLen(p) >= MinPasswordLen) =>
            LET o == RegisterOutcome("student", e, p, TRUE, mailOk, nextId, nextTok)
            IN  /\ o.resp = Resp(201, "registered", {}, {})
                /\ ~o.mail
                /\ o.users[e] # NoUser
                /\ o.users[e].role = "student"
                /\ o.users[e].isEmailVerified
                /\ o.users[e].emailVerificationToken = Unset
                /\ o.users[e].emailVerificationExpire = Unset
                /\ \A x \in Emails \ {e} : o.users[x] = users[x]
                /\ o.grants = grants

\* the student address is free for a registration
C17_Witness ==
    \E e \in Emails : e.domain = "students.git.edu" /\ ~Exists(e) /\ nextId <= MaxIds

\* C19: when the teacher's Identity has been created and sendEmail fails,
\* register still answers 201 with the raw verification token whose hash the
\* stored Identity carries.
C19_MailFailureStillSucceeds ==
    \A e \in Emails, p \in RegPasswords :
        RegisterReject("teacher", e, p) = "" =>
            LET o == RegisterOutcome("teacher", e, p, TRUE, FALSE, nextId, nextTok)
            IN  /\ o.mail
                /\ o.resp.status = 201
                /\ o.resp.vtok = {nextTok}
                /\ o.users[e] # NoUser
                /\ o.users[e].emailVerificationToken = Sha256(nextTok)

\* a teacher registration can go through and draw a fresh token
C19_Witness ==
    \E e \in Emails, p \in RegPasswords :
        /\ RegisterReject("teacher", e, p) = ""
        /\ nextId <= MaxIds /\ nextTok <= MaxTokens

\* C18: however the lookups and inserts of concurrent register requests for
\* one address interleave, at most one of them inserts an Identity and is
\* answered 201.
C18_OneRegistrationPerEmail ==
    \A e \in Emails : inserted[e] <= 1

\* two register requests for one address passed their lookups; one has
\* inserted its Identity and the other still awaits its User.create
C18_Witness ==
    \E q \in BagToSet(reg) : inserted[q.e] = 1 /\ Exists(q.e)

\* C20: verifyTeacher answers 200 only when the email and the code presented
\* match a grant that holds that code, unexpired (twenty-four hours), and is
\* unused; it then marks the grant verified, leaves it unused and clears the
\* code; and a grant whose code has been cleared accepts no further request.
C20_VerifyTeacherOnce ==
    \A e \in Emails, code \in PresentedCodes, dropped \in BOOLEAN :
        LET o == VerifyTeacherOutcome(e, code, dropped)
        IN  /\ o.resp.status = 200 =>
                  /\ grants[e] # NoGrant
                  /\ code # Unset
                  /\ grants[e].verificationCode = code
                  /\ grants[e].verificationExpires[1] > now
                  /\ ~grants[e].isUsed
                  /\ o.grants[e].isVerified
                  /\ ~o.grants[e].isUsed
                  /\ o.grants[e].verificationCode = Unset
            /\ (grants[e] # NoGrant /\ grants[e].verificationCode = Unset)
                  => o.resp.status = 400

\* a grant registration has consumed
UsedGrant(e) == grants[e] # NoGrant /\ grants[e].isUsed

\* C21: a used grant is never written again: whatever the request,
\* requestTeacherVerification, verifyTeacher, register and verifyEmail leave
\* every field of it as it is, isUsed included.
C21_UsedGrantNeverMutated ==
    \A e \in Emails : UsedGrant(e) =>
        /\ \A x \in Emails, code \in Codes, mailOk \in BOOLEAN :
              RequestTeacherVerificationOutcome(x, code, mailOk).grants[e] = grants[e]
        /\ \A x \in Emails, code \in PresentedCodes, dropped \in BOOLEAN :
              VerifyTeacherOutcome(x, code, dropped).grants[e] = grants[e]
        /\ \A route \in Routes, x \in Emails, p \in RegPasswords :
              \A createOk \in BOOLEAN, mailOk \in BOOLEAN :
                 RegisterOutcome(route, x, p, createOk, mailOk, nextId, nextTok).grants[e]
                    = grants[e]
        /\ \A raw \in Tokens, saveOk \in BOOLEAN :
              VerifyEmailOutcome(raw, saveOk).grants[e] = grants[e]

\* a used grant stands beside a grant that holds a code and a teacher
\* Identity whose verification is pending
C21_Witness ==
    /\ \E e \in Emails : UsedGrant(e)
    /\ \E x \in Emails : grants[x] # NoGrant /\ grants[x].verificationCode # Unset
    /\ \E x \in Emails : UnverifiedTeacher(x)

\* C22: login writes nothing to the stored Identity, whatever it answers:
\* every field, the pending verification token and its expiry included, is
\* after the call what it was before.
C22_LoginWritesNothing ==
    \A e \in Emails, p \in Passwords \cup {""} :
        LoginOutcome(e, p, nextTok).users = users

\* the passwords that verify against the Identity u
Verifying(u) == {p \in Passwords : ComparePassword(u, p)}

\* C23: the password is hashed when it is set or changed and only then. A
\* registration stores an Identity its password verifies against; the saves
\* of verifyEmail, forgotPassword and the reissue of a verification token by
\* login leave the stored hash as it is; and after a resetPassword answered
\* 200 the new password verifies and no other password does.
C23_PasswordHashedWhenChanged ==
    /\ \A route \in Routes, e \in Emails, p \in RegPasswords, mailOk \in BOOLEAN :
          LET o == RegisterOutcome(route, e, p, TRUE, mailOk, nextId, nextTok)
          IN  o.resp.status = 201 => Verifying(o.users[e]) = {p}
    /\ \A e \in Emails : Exists(e) =>
          /\ \A raw \in Tokens, saveOk \in BOOLEAN :
                VerifyEmailOutcome(raw, saveOk).users[e].password = users[e].password
          /\ ForgotPasswordOutcome(e).users[e].password = users[e].password
          /\ \A p \in Passwords :
                LoginOutcome(e, p, nextTok).users[e].password = users[e].password
    /\ \A q \in BagToSet(rr) :
          LET o == ResetSaveOutcome(q)
          IN  o.resp.status = 200 =>
                 \A e \in ById(q.uid) : Verifying(o.users[e]) = {q.pw}

\* a teacher whose password verifies has a live verification token, so
\* that verifyEmail and login both save the Identity, and a resetPassword
\* that changes a password is about to save
C23_Witness ==
    /\ \E e \in Emails : UnverifiedTeacher(e) /\ Verifying(users[e]) # {}
                         /\ VerifyLookup(nextTok - 1) = {e}
    /\ \E q \in BagToSet(rr) : \E e \in ById(q.uid) :
          /\ ResetSaveOutcome(q).resp.status = 200
          /\ q.pw \notin Verifying(users[e])

\* C24: the error handler answers an error that carries a statusCode with
\* that status and the error's message, and an error that carries none with
\* 500 and the generic message 'Server Error'.
C24_ErrorHandlerMapping ==
    (req.stage = "failed" /\ req.err.name = "Error") =>
        req.resp = IF req.err.statusCode # 0
                   THEN Resp(req.err.statusCode, req.err.message, {}, {})
                   ELSE Resp(500, "Server Error", {}, {})

\* C25: every used grant is verified, and a grant that is not verified cannot
\* be consumed: a teacher registration against it creates no Identity.
C25_UsedGrantsVerified ==
    /\ \A e \in Emails : UsedGrant(e) => grants[e].isVerified
    /\ \A e \in Emails, p \in RegPasswords :
          (grants[e] # NoGrant /\ ~grants[e].isVerified) =>
              RegisterOutcome("teacher", e, p, TRUE, TRUE, nextId, nextTok).users = users

\* C26: every teacher Identity has an address of the git.edu domain,
\* whatever grants the admins add or upload and whatever addresses
\* register/teacher is tried with.
C26_TeachersAreGitEdu ==
    \A e \in Emails :
        (Exists(e) /\ users[e].role = "teacher") => e.domain = "git.edu"

\* a teacher has registered, and the address of another domain is free, so
\* that a teacher registration with it is decided by the grant lookup
C26_Witness ==
    /\ \E e \in Emails : Exists(e) /\ users[e].role = "teacher"
    /\ \E e \in Emails : e.domain # "git.edu" /\ ~Exists(e) /\ Admins # {}

\* C29: a request to /register/admin that does not present the valid admin
\* key, because it has none or another one, creates no admin Identity.
C29_AdminNeedsValidKey ==
    \A e \in AdminAddrs, p \in RegPasswords, key \in AdminKeys :
        key # ValidAdminKey =>
            LET o == RegisterAdminOutcome(e, p, key, TRUE, nextId)
            IN  (o.users[e] # NoUser /\ o.users[e].role = "admin")
                    => (Exists(e) /\ users[e] = o.users[e])

NoDuplicates(list) == Cardinality(Range(list)) = Len(list)

\* C30: in every reachable state no user id is in both the upvotes and the
\* downvotes of an answer and none occurs twice in either list; and for
\* every signed-in user and every answer, voteAnswer with the vote the user
\* already holds removes it and leaves the opposite list alone, and with any
\* other vote stores that vote once and removes the opposite one; the votes
\* of the other users stay as they were.
C30_VotesConsistent ==
    /\ \A a \in AnswerIds :
          IsAnswer(answers[a]) =>
              /\ NoDuplicates(answers[a].upvotes)
              /\ NoDuplicates(answers[a].downvotes)
              /\ Range(answers[a].upvotes) \cap Range(answers[a].downvotes) = {}
    /\ \A tok \in Bearers, a \in AnswerIds :
          (/\ ProtectOutcome(tok).next
           /\ ProtectOutcome(tok).user # Null
           /\ IsAnswer(answers[a])) =>
              LET user == ProtectOutcome(tok).user
                  me   == ObjectId(UserId(user))
                  was  == answers[a]
                  up   == VoteAnswerOutcome(user, DoubtId, a, "up").answers[a]
                  down == VoteAnswerOutcome(user, DoubtId, a, "down").answers[a]
                  others(list) == LET keep(x) == x # me IN SelectSeq(list, keep)
              IN  /\ IF me \in Range(was.upvotes)
                     THEN me \notin Range(up.upvotes) /\ up.downvotes = was.downvotes
                     ELSE /\ Cardinality({i \in 1..Len(up.upvotes) : up.upvotes[i] = me}) = 1
                          /\ me \notin Range(up.downvotes)
                  /\ IF me \in Range(was.downvotes)
                     THEN me \notin Range(down.downvotes) /\ down.upvotes = was.upvotes
                     ELSE /\ Cardinality({i \in 1..Len(down.downvotes) :
                                             down.downvotes[i] = me}) = 1
                          /\ me \notin Range(down.upvotes)
                  /\ others(up.upvotes) = others(was.upvotes)
                  /\ others(up.downvotes) = others(was.downvotes)
                  /\ others(down.upvotes) = others(was.upvotes)
                  /\ others(down.downvotes) = others(was.downvotes)

\* an answer holds the upvote of one signed-in user and the downvote of
\* another, so that both the toggle and the replacement are tried on it
C30_Witness ==
    \E a \in AnswerIds, tok \in Bearers :
        /\ IsAnswer(answers[a])
        /\ ProtectOutcome(tok).next
        /\ ProtectOutcome(tok).user # Null
        /\ ObjectId(UserId(ProtectOutcome(tok).user)) \in Range(answers[a].upvotes)
        /\ Len(answers[a].downvotes) >= 1

====
